---------------------------- MODULE Spec2Model ----------------------------
(***************************************************************************)
(* A model of random_mode_rotation: the map catalog (map_data.rs), the     *)
(* play log (play_log.rs), the scoring engine (map_scoring.rs) and the     *)
(* interactive main loop with its weighted sampler (main.rs).              *)
(*                                                                         *)
(* f64 values are modelled in binary fixed point.  The accumulators        *)
(* penalty and cross_type_sibling_penalty carry FixBits fractional bits.   *)
(* A score is carried as its base-2 logarithm with LogBits fractional bits *)
(* (powf, the division and the multiplication of final_score are exact     *)
(* there up to the last bit) and converted back, with ScoreBits fractional *)
(* bits, where normalize_scores adds scores up.  A normalized weight has   *)
(* WeightBits fractional bits.                                             *)
(***************************************************************************)
EXTENDS Integers, Sequences, FiniteSets, TLC

\* ------------------------------------------------------------- bounds

\* lines of play_log.txt when the program starts
MaxFile == 2
\* entries of the in-memory log past which no further map is selected
MaxLog == 3

\* fractional bits of the two penalty accumulators
FixBits == 10
\* fractional bits of a base-2 logarithm
LogBits == 10
\* fractional bits of a score converted back from its logarithm
ScoreBits == 13
\* fractional bits of a normalized weight
WeightBits == 28

\* entries of the log that build_scores' fold is followed through one by one
MaxSeen == 2
\* further entries, each the same map as the last of those
MaxRun == 200

\* ------------------------------------------------- fixed-point helpers

RECURSIVE Pow2(_)
Pow2(n) == IF n <= 0 THEN 1 ELSE 2 * Pow2(n - 1)

RECURSIVE FloorLog2(_)
FloorLog2(n) == IF n <= 1 THEN 0 ELSE 1 + FloorLog2(n \div 2)

\* n scaled into [2^14, 2^15)
Mantissa(n) ==
    LET e == FloorLog2(n)
    IN  IF e >= 14 THEN n \div Pow2(e - 14) ELSE n * Pow2(14 - e)

\* log2(m / 2^14) by repeated squaring: acc the fractional bits so far,
\* k bits to go
RECURSIVE LogFrac(_, _, _)
LogFrac(m, acc, k) ==
    IF k = 0 THEN acc
    ELSE LET sq == (m * m) \div 16384
         IN  IF sq >= 32768
             THEN LogFrac(sq \div 2, 2 * acc + 1, k - 1)
             ELSE LogFrac(sq, 2 * acc, k - 1)

\* floor(2^LogBits * log2(n)) for an integer n >= 1
Log2Fix(n) == FloorLog2(n) * Pow2(LogBits) + LogFrac(Mantissa(n), 0, LogBits)

\* 2^15 * 2^(1/2), 2^15 * 2^(1/4), ..., 2^15 * 2^(1/8192)
ExpTable ==
    <<46340, 38967, 35733, 34218, 33485, 33124, 32945, 32856, 32812, 32790,
      32779, 32773, 32770>>

\* m * 2^(f / 2^LogBits), one factor per fractional bit of f from bit k on
RECURSIVE ExpFrac(_, _, _)
ExpFrac(m, f, k) ==
    IF k > LogBits THEN m
    ELSE IF (f \div Pow2(LogBits - k)) % 2 = 1
         THEN ExpFrac((m * ExpTable[k]) \div 32768, f, k + 1)
         ELSE ExpFrac(m, f, k + 1)

\* 2^ScoreBits * 2^(l / 2^LogBits), rounded down: the inverse of Log2Fix
Exp2Fix(l) ==
    LET e  == l \div Pow2(LogBits)
        f  == l % Pow2(LogBits)
        m  == ExpFrac(16384, f, 1)
        sh == e - 14 + ScoreBits
    IN  IF sh >= 0 THEN m * Pow2(sh) ELSE m \div Pow2(-sh)

\* floor(a * n / d) without an intermediate product above 2^31 (n, d < 46340)
MulDiv(a, n, d) == (a \div d) * n + ((a % d) * n) \div d

\* long division: q the quotient so far, r the remainder, k bits to go
RECURSIVE DivBits(_, _, _, _)
DivBits(q, r, b, k) ==
    IF k = 0 THEN q
    ELSE DivBits(2 * q + (2 * r) \div b, (2 * r) % b, b, k - 1)

\* floor(2^k * a / b) for 0 <= a <= b < 2^30
DivFix(a, b, k) == DivBits(a \div b, a % b, b, k)

\* ------------------------------------------------------ map_data.rs

Modes == {"TD", "DM", "Chaser", "BR", "Captain", "Siege"}

\* Mode::ordered: the modes in their derived order
ordered == <<"TD", "DM", "Chaser", "BR", "Captain", "Siege">>

\* the derived Ord of Mode: the position of the variant in the enum
ModeOrd(m) == CHOOSE i \in 1..6 : ordered[i] = m

\* next with the step from Captain going back to TD
next_skipping_siege(m) ==
    CASE m = "TD"      -> "DM"
      [] m = "DM"      -> "Chaser"
      [] m = "Chaser"  -> "BR"
      [] m = "BR"      -> "Captain"
      [] m = "Captain" -> "TD"
      [] m = "Siege"   -> "TD"

\* Mode::next
next(m) ==
    CASE m = "TD"      -> "DM"
      [] m = "DM"      -> "Chaser"
      [] m = "Chaser"  -> "BR"
      [] m = "BR"      -> "Captain"
      [] m = "Captain" -> "Siege"
      [] m = "Siege"   -> "TD"

\* mode_discount matching (self, o) as given, without min and max
mode_discount_unordered(self, o) ==
    CASE self = "Siege" /\ o = "Siege"   -> 10
      [] self = "Siege" /\ o # "Siege"   -> 1
      [] self # "Siege" /\ o = "Siege"   -> 1
      [] self = "Chaser" /\ o = "Chaser" -> 10
      [] self = "Chaser" /\ o \notin {"Siege", "Chaser"} -> 1
      [] self \notin {"Siege", "Chaser"} /\ o = "Chaser" -> 1
      [] self = "TD" /\ o = "DM"      -> 6
      [] self = "TD" /\ o = "BR"      -> 5
      [] self = "TD" /\ o = "Captain" -> 5
      [] self = "DM" /\ o = "BR"      -> 9
      [] self = "DM" /\ o = "Captain" -> 8
      [] self = "BR" /\ o = "Captain" -> 7
      [] OTHER -> 10

\* Mode::mode_discount, in tenths; the arms are tried in the source's order
mode_discount(self, o) ==
    LET a == IF ModeOrd(self) <= ModeOrd(o) THEN self ELSE o
        b == IF ModeOrd(self) <= ModeOrd(o) THEN o ELSE self
    IN  CASE a = "Siege" /\ b = "Siege"   -> 10
          [] a = "Siege" /\ b # "Siege"   -> 1
          [] a # "Siege" /\ b = "Siege"   -> 1
          [] a = "Chaser" /\ b = "Chaser" -> 10
          [] a = "Chaser" /\ b \notin {"Siege", "Chaser"} -> 1
          [] a \notin {"Siege", "Chaser"} /\ b = "Chaser" -> 1
          [] a = "TD" /\ b = "DM"      -> 6
          [] a = "TD" /\ b = "BR"      -> 5
          [] a = "TD" /\ b = "Captain" -> 5
          [] a = "DM" /\ b = "BR"      -> 9
          [] a = "DM" /\ b = "Captain" -> 8
          [] a = "BR" /\ b = "Captain" -> 7
          [] OTHER -> 10

\* TryInto<Mode> for &str: the lower-cased name decides
ModeOfStr(str) ==
    CASE str \in {"td", "TD"}           -> "TD"
      [] str \in {"dm", "DM"}           -> "DM"
      [] str \in {"chaser", "Chaser"}   -> "Chaser"
      [] str \in {"br", "BR"}           -> "BR"
      [] str \in {"captain", "Captain"} -> "Captain"
      [] str \in {"siege", "Siege"}     -> "Siege"
      [] OTHER -> "UnknownMode"

IsU16(v) == v \in 0..65535

NoGroup == -1

\* One variant object of all_maps.json.  gag and disabled are "null" (absent),
\* "true" or "false".
Variant(id, mode, players, gag, disabled) ==
    [id |-> id, mode |-> mode, players |-> players, gag |-> gag, disabled |-> disabled]

\* One group object of all_maps.json
Group(gid, variants) == [gid |-> gid, variants |-> variants]

\* the body of the loop over variants.members(): the state st is
\* [err, maps, variants], maps a function from id to Map
RECURSIVE LoadVariants(_, _, _)
LoadVariants(vs, gid, st) ==
    IF vs = <<>> \/ st.err THEN st
    ELSE LET v    == Head(vs)
             mode == ModeOfStr(v.mode)
             bad  == \/ ~IsU16(v.id)
                     \/ ~IsU16(v.players)
                     \/ mode = "UnknownMode"
                     \/ v.gag \notin {"null", "true", "false"}
                     \/ v.disabled \notin {"null", "true", "false"}
             map  == [id |-> v.id, group |-> NoGroup, mode |-> mode,
                      players |-> v.players,
                      is_gag |-> v.gag = "true",
                      disabled |-> v.disabled = "true"]
         IN  IF bad THEN [st EXCEPT !.err = TRUE]
             ELSE LoadVariants(Tail(vs), gid,
                    [err      |-> v.id \in DOMAIN st.maps,
                     maps     |-> [i \in DOMAIN st.maps \cup {v.id} |->
                                     IF i = v.id THEN map ELSE st.maps[i]],
                     variants |-> Append(st.variants, v.id)])

\* the body of the loop over json.members(): the state st is [err, groups, maps]
RECURSIVE LoadGroups(_, _)
LoadGroups(gs, st) ==
    IF gs = <<>> \/ st.err THEN st
    ELSE LET g  == Head(gs)
             vr == LoadVariants(g.variants, g.gid,
                                [err |-> FALSE, maps |-> st.maps, variants |-> <<>>])
             group == [gid |-> g.gid, variants |-> vr.variants]
             mine  == {vr.variants[i] : i \in DOMAIN vr.variants}
         IN  IF ~IsU16(g.gid) \/ vr.err THEN [st EXCEPT !.err = TRUE]
             ELSE LoadGroups(Tail(gs),
                    [err    |-> g.gid \in DOMAIN st.groups,
                     groups |-> [i \in DOMAIN st.groups \cup {g.gid} |->
                                   IF i = g.gid THEN group ELSE st.groups[i]],
                     maps   |-> [i \in DOMAIN vr.maps |->
                                   IF i \in mine
                                   THEN [vr.maps[i] EXCEPT !.group = g.gid]
                                   ELSE vr.maps[i]]])

\* load_map_data on the parsed content of all_maps.json: [err, groups, maps]
load_map_data(json) ==
    LoadGroups(json, [err |-> FALSE, groups |-> << >>, maps |-> << >>])

\* ------------------------------------------------------ play_log.rs

\* A line of play_log.txt is modelled by the number append_log wrote after
\* its '#'.  Regex "\\d{1,3}" finds the first run of digits and takes at most
\* three of them.
FirstDigits(n) ==
    IF n < 1000 THEN n ELSE IF n < 10000 THEN n \div 10 ELSE n \div 100

\* load_log: [err, records]
RECURSIVE LoadLines(_, _, _)
LoadLines(lines, maps, records) ==
    IF lines = <<>> THEN [err |-> FALSE, records |-> records]
    ELSE LET id == FirstDigits(Head(lines))
         IN  IF id \notin DOMAIN maps
             THEN [err |-> TRUE, records |-> records]
             ELSE LoadLines(Tail(lines), maps, Append(records, id))

load_log(lines, maps) == LoadLines(lines, maps, <<>>)

\* the line append_log writes for a map, on a line of its own
LogLine(map) == map.id

\* ---------------------------------------------------- map_scoring.rs

MAX_AGE == 200
ROUND_PENALTY == 1000

\* 1.0 in the fixed point of the penalty accumulators
FixOne == Pow2(FixBits)

\* x * ROUND_DISCOUNT, ROUND_DISCOUNT = 1.0 / 1.0108892860517005
MulRoundDiscount(x) == MulDiv(x, 10000, 10109)

\* x * CROSS_TYPE_ROUND_DISCOUNT, the discount being 1.0 / 1.0594630943592953
MulCrossDiscount(x) == MulDiv(x, 10000, 10595)

Min(a, b) == IF a <= b THEN a ELSE b
Max(a, b) == IF a >= b THEN a ELSE b

\* map_played with the same-mode penalty taken off instead of added
map_played_subtracting(self, other_map) ==
    LET penalty == MulRoundDiscount(self.penalty)
        cross   == MulCrossDiscount(self.cross_type_sibling_penalty)
        age     == IF other_map.id = self.map.id THEN 1
                   ELSE Min(MAX_AGE, self.age + 1)
        decayed == [self EXCEPT !.penalty = penalty,
                                !.cross_type_sibling_penalty = cross,
                                !.age = age]
    IN  IF self.map.group = other_map.group
        THEN IF self.map.mode = other_map.mode
             THEN [decayed EXCEPT !.penalty = penalty - ROUND_PENALTY * FixOne]
             ELSE [decayed EXCEPT !.cross_type_sibling_penalty =
                     cross + (mode_discount(self.map.mode, other_map.mode)
                              * ROUND_PENALTY * FixOne) \div 10]
        ELSE decayed

\* map_played resetting the age before it ages the map
map_played_resetting_first(self, other_map) ==
    LET penalty == MulRoundDiscount(self.penalty)
        cross   == MulCrossDiscount(self.cross_type_sibling_penalty)
        age     == Min(MAX_AGE, (IF other_map.id = self.map.id THEN 1
                                 ELSE self.age) + 1)
        decayed == [self EXCEPT !.penalty = penalty,
                                !.cross_type_sibling_penalty = cross,
                                !.age = age]
    IN  IF self.map.group = other_map.group
        THEN IF self.map.mode = other_map.mode
             THEN [decayed EXCEPT !.penalty = penalty + ROUND_PENALTY * FixOne]
             ELSE [decayed EXCEPT !.cross_type_sibling_penalty =
                     cross + (mode_discount(self.map.mode, other_map.mode)
                              * ROUND_PENALTY * FixOne) \div 10]
        ELSE decayed

\* map_played adding the round's penalty before it discounts
map_played_discounting_increment(self, other_map) ==
    LET age     == IF other_map.id = self.map.id THEN 1
                   ELSE Min(MAX_AGE, self.age + 1)
        same    == self.map.group = other_map.group
        add     == IF same /\ self.map.mode = other_map.mode
                   THEN ROUND_PENALTY * FixOne ELSE 0
        addx    == IF same /\ self.map.mode # other_map.mode
                   THEN (mode_discount(self.map.mode, other_map.mode)
                         * ROUND_PENALTY * FixOne) \div 10
                   ELSE 0
    IN  [self EXCEPT !.penalty = MulRoundDiscount(self.penalty + add),
                     !.cross_type_sibling_penalty =
                         MulCrossDiscount(self.cross_type_sibling_penalty + addx),
                     !.age = age]

\* MapScoring::map_played.  self is [map, age, cross_type_sibling_penalty,
\* penalty], map and other_map are Map records.
map_played(self, other_map) ==
    LET penalty == MulRoundDiscount(self.penalty)
        cross   == MulCrossDiscount(self.cross_type_sibling_penalty)
        age     == IF other_map.id = self.map.id THEN 1
                   ELSE Min(MAX_AGE, self.age + 1)
        decayed == [self EXCEPT !.penalty = penalty,
                                !.cross_type_sibling_penalty = cross,
                                !.age = age]
    IN  IF self.map.group = other_map.group
        THEN IF self.map.mode = other_map.mode
             THEN [decayed EXCEPT !.penalty = penalty + ROUND_PENALTY * FixOne]
             ELSE [decayed EXCEPT !.cross_type_sibling_penalty =
                     cross + (mode_discount(self.map.mode, other_map.mode)
                              * ROUND_PENALTY * FixOne) \div 10]
        ELSE decayed

\* log2 of the clamp's bounds 0.001 and 100000.
ClampLo == 0 - Log2Fix(1000)
ClampHi == Log2Fix(100000)

\* final_score with its quotient upside down: s.powf(1.4) / 1000.
final_score_not_inverted(self) ==
    LET s     == self.penalty + self.cross_type_sibling_penalty
        ls    == Log2Fix(s) - FixBits * Pow2(LogBits)
        lpow  == (14 * ls) \div 10
        lmul  == lpow - Log2Fix(1000)
        lage  == (6 * Log2Fix(self.age)) \div 10
        lraw  == lmul + lage
    IN  IF s < 0 THEN [nan |-> TRUE, score |-> 0, map |-> self.map]
        ELSE IF s = 0 THEN [nan |-> FALSE, score |-> ClampLo, map |-> self.map]
        ELSE [nan |-> FALSE, score |-> Max(ClampLo, Min(ClampHi, lraw)),
              map |-> self.map]

\* MapScoring::final_score: [nan, score, map], score the base-2 logarithm
\* of the f64.  A negative base makes powf NaN, which clamp passes on; a zero
\* base makes the quotient infinite, which clamp cuts to 100000.
final_score(self) ==
    LET s     == self.penalty + self.cross_type_sibling_penalty
        ls    == Log2Fix(s) - FixBits * Pow2(LogBits)
        lpow  == (14 * ls) \div 10
        linv  == Log2Fix(1000) - lpow
        lage  == (6 * Log2Fix(self.age)) \div 10
        lraw  == linv + lage
    IN  IF s < 0 THEN [nan |-> TRUE, score |-> 0, map |-> self.map]
        ELSE IF s = 0 THEN [nan |-> FALSE, score |-> ClampHi, map |-> self.map]
        ELSE [nan |-> FALSE, score |-> Max(ClampLo, Min(ClampHi, lraw)),
              map |-> self.map]

RECURSIVE SumSeq(_)
SumSeq(q) == IF q = <<>> THEN 0 ELSE Head(q) + SumSeq(Tail(q))

\* the scores converted back from their logarithms
RECURSIVE Linear(_)
Linear(scores) ==
    IF scores = <<>> THEN <<>>
    ELSE <<Exp2Fix(Head(scores).score)>> \o Linear(Tail(scores))

\* scores.iter().map(|(s, m)| (s / sum, m.clone())), lin the scores
RECURSIVE Weights(_, _, _)
Weights(scores, lin, sum) ==
    IF scores = <<>> THEN <<>>
    ELSE <<[w |-> DivFix(Head(lin), sum, WeightBits), map |-> Head(scores).map]>>
         \o Weights(Tail(scores), Tail(lin), sum)

\* normalize_scores: a sequence of [w, map], w the weight s / sum
normalize_scores(scores) ==
    LET lin == Linear(scores)
    IN  Weights(scores, lin, SumSeq(lin))

\* get_appropriate_maps asking for more room than the players need
RECURSIVE get_roomier_maps(_, _, _)
get_roomier_maps(mode, players, all_maps) ==
    IF all_maps = <<>> THEN <<>>
    ELSE LET m    == Head(all_maps)
             rest == get_roomier_maps(mode, players, Tail(all_maps))
         IN  IF m.mode = mode /\ m.players > players
             THEN <<[map |-> m, age |-> MAX_AGE,
                     cross_type_sibling_penalty |-> FixOne,
                     penalty |-> FixOne]>> \o rest
             ELSE rest

\* get_appropriate_maps
RECURSIVE get_appropriate_maps(_, _, _)
get_appropriate_maps(mode, players, all_maps) ==
    IF all_maps = <<>> THEN <<>>
    ELSE LET m    == Head(all_maps)
             rest == get_appropriate_maps(mode, players, Tail(all_maps))
         IN  IF m.mode = mode /\ m.players >= players
             THEN <<[map |-> m, age |-> MAX_AGE,
                     cross_type_sibling_penalty |-> FixOne,
                     penalty |-> FixOne]>> \o rest
             ELSE rest

\* for l in log { s.map_played(l) }
RECURSIVE SeeLog(_, _)
SeeLog(s, log) ==
    IF log = <<>> THEN s ELSE SeeLog(map_played(s, Head(log)), Tail(log))

\* insert e into a sequence sorted by descending weight, after its equals
RECURSIVE InsertDesc(_, _)
InsertDesc(q, e) ==
    IF q = <<>> THEN <<e>>
    ELSE IF e.w > Head(q).w THEN <<e>> \o q
    ELSE <<Head(q)>> \o InsertDesc(Tail(q), e)

\* sort_by(|a, b| a.0.partial_cmp(&b.0).unwrap().reverse()): stable, descending
RECURSIVE SortDesc(_)
SortDesc(q) ==
    IF q = <<>> THEN <<>>
    ELSE InsertDesc(SortDesc(SubSeq(q, 1, Len(q) - 1)), q[Len(q)])

\* scores.into_iter().map(MapScoring::final_score), each state having seen
\* the log
RECURSIVE Finals(_, _)
Finals(states, log) ==
    IF states = <<>> THEN <<>>
    ELSE <<final_score(SeeLog(Head(states), log))>> \o Finals(Tail(states), log)

\* build_scores: [panic, scores]; panic when final_score's assertion fires
build_scores(log, mode, players, all_maps) ==
    LET finals == Finals(get_appropriate_maps(mode, players, all_maps), log)
    IN  IF \E i \in DOMAIN finals : finals[i].nan
        THEN [panic |-> TRUE, scores |-> <<>>]
        ELSE [panic |-> FALSE, scores |-> SortDesc(normalize_scores(finals))]

\* ------------------------------------------------------------ inputs

\* Contents of all_maps.json.  Rotation: three groups; TD has 3 maps for 16
\* players and 4 for 12, DM has 2 for 16 and 3 for 12, Siege has 1, the other
\* modes none.
JsonRotation ==
    << Group(1, << Variant(1, "TD", 16, "null", "null"),
                   Variant(2, "td", 16, "true", "null"),
                   Variant(3, "DM", 16, "null", "null") >>),
       Group(2, << Variant(4, "TD", 16, "null", "true"),
                   Variant(5, "DM", 16, "null", "false") >>),
       Group(3, << Variant(6, "TD", 12, "null", "null"),
                   Variant(7, "dm", 12, "false", "null"),
                   Variant(8, "Siege", 16, "null", "null") >>) >>

\* one map per mode in one group, and a group without variants
JsonPair ==
    << Group(1, << Variant(1, "TD", 16, "null", "null"),
                   Variant(2, "DM", 16, "null", "null") >>),
       Group(2, << >>) >>

\* two maps of one mode in one group, and no other map
JsonTwins ==
    << Group(7, << Variant(1, "TD", 16, "null", "null"),
                   Variant(2, "TD", 16, "null", "null") >>) >>

\* map ids of two, three and four digits
JsonWide ==
    << Group(9, << Variant(12, "TD", 16, "null", "null"),
                   Variant(123, "TD", 16, "null", "null"),
                   Variant(1234, "TD", 16, "null", "null") >>) >>

\* rejected files: a map id twice, a gid twice, an unknown mode, an id
\* that is no u16
JsonDupMap ==
    << Group(1, << Variant(1, "TD", 16, "null", "null") >>),
       Group(2, << Variant(1, "DM", 16, "null", "null") >>) >>
JsonDupGroup ==
    << Group(1, << Variant(1, "TD", 16, "null", "null") >>),
       Group(1, << Variant(2, "DM", 16, "null", "null") >>) >>
JsonBadMode == << Group(1, << Variant(1, "ctf", 16, "null", "null") >>) >>
JsonBadId == << Group(1, << Variant(70000, "TD", 16, "null", "null") >>) >>

JsonInputs ==
    {JsonRotation, JsonPair, JsonTwins, JsonWide, JsonDupMap, JsonDupGroup, JsonBadMode, JsonBadId}

\* the ids a file names
JsonIds(json) ==
    UNION {{json[g].variants[v].id : v \in DOMAIN json[g].variants} : g \in DOMAIN json}

\* Contents of play_log.txt at start: lines written for maps of the file, or
\* for a map (999) the file does not hold
LogFiles(json) ==
    UNION {[1..k -> JsonIds(json) \cup {999}] : k \in 0..MaxFile}

\* ------------------------------------------------------------- state

VARIABLES
    json,           \* all_maps.json
    file,           \* play_log.txt, a sequence of lines
    pc,             \* where main is
    groups, maps,   \* the (Groups, Maps) of load_map_data
    all_maps,       \* main's all_maps: ids in the order of maps.values()
    log,            \* main's log: ids, oldest first
    mode, players, show_all_maps,
    scores,         \* pick_random_maps' scores, while it runs
    random_maps,    \* pick_random_maps' and then main's random_maps
    map,            \* the map of the SelectMap arm (0: none)
    iter,           \* pick_random_maps' loop: the parity of its iterations
    fold,           \* build_scores' scores while every map sees the log
    hist, run       \* the entries seen so far: hist, then run times its last

\* the state of main and of pick_random_maps
mainvars == <<json, file, pc, groups, maps, all_maps, log, mode, players,
              show_all_maps, scores, random_maps, map, iter>>

\* the state of the fold of build_scores
foldvars == <<fold, hist, run>>

vars == <<mainvars, foldvars>>

Init ==
    /\ json \in JsonInputs
    /\ file \in LogFiles(json)
    /\ pc = "start"
    /\ groups = << >>
    /\ maps = << >>
    /\ all_maps = << >>
    /\ log = << >>
    /\ mode = "TD"
    /\ players = 16
    /\ show_all_maps = FALSE
    /\ scores = << >>
    /\ random_maps = << >>
    /\ map = 0
    /\ iter = 0
    /\ fold = << >>
    /\ hist = << >>
    /\ run = 0

\* ------------------------------------------------------------ main.rs

RECURSIVE Ascending(_)
Ascending(S) ==
    IF S = {} THEN << >>
    ELSE LET lo == CHOOSE x \in S : \A y \in S : x <= y
         IN  <<lo>> \o Ascending(S \ {lo})

Reverse(q) == [i \in DOMAIN q |-> q[Len(q) + 1 - i]]

\* maps.values(): a HashMap iterates in an order of its own; two orders
\* stand for them
MapOrders(ms) == {Ascending(DOMAIN ms), Reverse(Ascending(DOMAIN ms))}

\* the Map records of a sequence of ids
Resolve(ids) == [i \in DOMAIN ids |-> maps[ids[i]]]

\* main, from load_map_data to the initial state of the loop
Startup ==
    /\ pc = "start"
    /\ LET cat == load_map_data(json)
           lg  == load_log(file, cat.maps)
       IN  IF cat.err
           THEN /\ pc' = "exit_err"
                /\ UNCHANGED <<groups, maps, all_maps, log, mode>>
           ELSE /\ groups' = cat.groups
                /\ maps' = cat.maps
                /\ all_maps' \in MapOrders(cat.maps)
                /\ IF lg.err
                   THEN /\ pc' = "exit_err"
                        /\ UNCHANGED <<log, mode>>
                   ELSE /\ pc' = "loop"
                        /\ log' = lg.records
                        /\ mode' = IF lg.records = << >> THEN "TD"
                                   ELSE next(cat.maps[lg.records[Len(lg.records)]].mode)
    /\ UNCHANGED <<json, file, players, show_all_maps, scores, random_maps,
                   map, iter>>
    /\ UNCHANGED foldvars

\* pick_random_maps without its assertion
PickEntryUnchecked(s) == "draw"

\* assert!(!scores.is_empty()) of pick_random_maps: where control goes
PickEntry(s) == IF s = << >> THEN "panic_empty" ELSE "draw"

\* the top of the main loop: build_scores for the all-maps view, or the
\* entry of pick_random_maps up to its loop
LoopTop ==
    /\ pc = "loop"
    /\ LET bs == build_scores(Resolve(log), mode, players, Resolve(all_maps))
       IN  IF bs.panic
           THEN /\ pc' = "panic_nan"
                /\ UNCHANGED <<show_all_maps, scores, random_maps>>
           ELSE IF show_all_maps
           THEN /\ show_all_maps' = FALSE
                /\ random_maps' = bs.scores
                /\ pc' = "prompt"
                /\ UNCHANGED scores
           ELSE /\ pc' = PickEntry(bs.scores)
                /\ scores' = IF pc' = "draw" THEN bs.scores ELSE << >>
                /\ random_maps' = << >>
                /\ UNCHANGED show_all_maps
    /\ iter' = 0
    /\ UNCHANGED <<json, file, groups, maps, all_maps, log, mode, players, map>>
    /\ UNCHANGED foldvars

\* the sum of the weights of the first k scores
RECURSIVE Cum(_, _)
Cum(s, k) == IF k = 0 THEN 0 ELSE Cum(s, k - 1) + s[k].w

\* Values of random::<f64>() * sum: the least, and on and just past every
\* boundary between two scores.  With three or more scores the roundings of
\* the sum and of the subtractions can leave a remainder above 0 after the
\* last score: sum + 1 stands for that draw.
RandomDraws(s) ==
    {0} \cup {Cum(s, k) : k \in 1..(Len(s) - 1)}
        \cup {Cum(s, k) + 1 : k \in 1..(Len(s) - 1)}
        \cup (IF Len(s) >= 3 THEN {Cum(s, Len(s)) + 1} ELSE {})

\* the for loop of pick_random_maps: the index of the first score at which
\* random, less the weights so far, is <= 0; 0 when there is none
RECURSIVE Walk(_, _, _)
Walk(s, random, idx) ==
    IF idx > Len(s) THEN 0
    ELSE IF random - s[idx].w <= 0 THEN idx
    ELSE Walk(s, random - s[idx].w, idx + 1)

\* the picked score left in the pool
RemoveNothing(s, idx) == s

\* scores.remove(idx)
RemoveAt(s, idx) == SubSeq(s, 1, idx - 1) \o SubSeq(s, idx + 1, Len(s))

\* random_maps.sort_unstable_by(sort_score): a short slice is sorted by
\* insertion
sort_score(q) == SortDesc(q)

\* one iteration of the loop of pick_random_maps, and its return
Draw ==
    /\ pc = "draw"
    /\ \E random \in RandomDraws(scores) :
         LET idx == Walk(scores, random, 1)
         IN  IF idx = 0
             THEN /\ iter' = 1 - iter
                  /\ UNCHANGED <<pc, scores, random_maps>>
             ELSE IF \E e \in DOMAIN random_maps :
                        random_maps[e].map.id = scores[idx].map.id
             THEN /\ pc' = "panic_dup"
                  /\ iter' = 0
                  /\ UNCHANGED <<scores, random_maps>>
             ELSE LET picked == Append(random_maps, scores[idx])
                  IN  IF Len(picked) >= 3
                      THEN /\ random_maps' = sort_score(picked)
                           /\ scores' = << >>
                           /\ pc' = "prompt"
                           /\ iter' = 0
                      ELSE /\ random_maps' = picked
                           /\ scores' = RemoveAt(scores, idx)
                           /\ pc' = "draw"
                           /\ iter' = 1 - iter
    /\ UNCHANGED <<json, file, groups, maps, all_maps, log, mode, players,
                   show_all_maps, map>>
    /\ UNCHANGED foldvars

\* the SelectMap arm pushing onto the log before append_log runs
SelectMapPushFirst(n) ==
    /\ pc = "prompt"
    /\ n > 0 /\ n <= Len(random_maps)
    /\ Len(log) < MaxLog
    /\ map' = random_maps[n].map.id
    /\ log' = Append(log, random_maps[n].map.id)
    /\ \/ /\ file' = Append(file, LogLine(random_maps[n].map))
          /\ pc' = "loop"
       \/ /\ file' = file
          /\ pc' = "exit_err"
    /\ UNCHANGED <<json, groups, maps, all_maps, mode, players,
                   show_all_maps, scores, random_maps, iter>>
    /\ UNCHANGED foldvars

\* ModeAction::SelectMap(n - 1), to the end of append_log.  append_log
\* fails before it writes, or after its line reached the file, or succeeds.
SelectMap(n) ==
    /\ pc = "prompt"
    /\ n > 0 /\ n <= Len(random_maps)
    /\ Len(log) < MaxLog
    /\ map' = random_maps[n].map.id
    /\ \/ /\ file' = Append(file, LogLine(random_maps[n].map))
          /\ pc' = "push"
       \/ /\ file' = Append(file, LogLine(random_maps[n].map))
          /\ pc' = "exit_err"
       \/ /\ file' = file
          /\ pc' = "exit_err"
    /\ UNCHANGED <<json, groups, maps, all_maps, log, mode, players,
                   show_all_maps, scores, random_maps, iter>>
    /\ UNCHANGED foldvars

\* the rest of the SelectMap arm
PushLog ==
    /\ pc = "push"
    /\ log' = Append(log, map)
    /\ mode' = next(mode)
    /\ map' = 0
    /\ random_maps' = << >>
    /\ pc' = "loop"
    /\ UNCHANGED <<json, file, groups, maps, all_maps, players, show_all_maps,
                   scores, iter>>
    /\ UNCHANGED foldvars

\* ModeAction::ChangeMode with prompt_for_mode's answer
ChangeMode(m) ==
    /\ pc = "prompt"
    /\ mode' = IF m = "cancel" THEN mode ELSE m
    /\ random_maps' = << >>
    /\ pc' = "loop"
    /\ UNCHANGED <<json, file, groups, maps, all_maps, log, players,
                   show_all_maps, scores, map, iter>>
    /\ UNCHANGED foldvars

\* ModeAction::SetPlayerCt with prompt_for_player_ct's answer; an answer
\* outside 8..=16 is asked for again
SetPlayerCt(n) ==
    /\ pc = "prompt"
    /\ n >= 8 /\ n <= 16
    /\ players' = n
    /\ random_maps' = << >>
    /\ pc' = "loop"
    /\ UNCHANGED <<json, file, groups, maps, all_maps, log, mode,
                   show_all_maps, scores, map, iter>>
    /\ UNCHANGED foldvars

\* ModeAction::Percents: print_all_maps_for_mode
Percents(m) ==
    /\ pc = "prompt"
    /\ LET bs == build_scores(Resolve(log), m, 0, Resolve(all_maps))
       IN  pc' = IF m = "cancel" THEN "loop"
                 ELSE IF bs.panic THEN "panic_nan"
                 ELSE IF bs.scores = << >> THEN "panic_empty"
                 ELSE "loop"
    /\ random_maps' = << >>
    /\ UNCHANGED <<json, file, groups, maps, all_maps, log, mode, players,
                   show_all_maps, scores, map, iter>>
    /\ UNCHANGED foldvars

\* ModeAction::AllMaps
AllMaps ==
    /\ pc = "prompt"
    /\ show_all_maps' = TRUE
    /\ random_maps' = << >>
    /\ pc' = "loop"
    /\ UNCHANGED <<json, file, groups, maps, all_maps, log, mode, players,
                   scores, map, iter>>
    /\ UNCHANGED foldvars

\* ModeAction::Shuffle
Shuffle ==
    /\ pc = "prompt"
    /\ random_maps' = << >>
    /\ pc' = "loop"
    /\ UNCHANGED <<json, file, groups, maps, all_maps, log, mode, players,
                   show_all_maps, scores, map, iter>>
    /\ UNCHANGED foldvars

Next ==
    \/ Startup
    \/ LoopTop
    \/ Draw
    \/ \E n \in 1..4 : SelectMap(n)
    \/ PushLog
    \/ \E m \in Modes \cup {"cancel"} : ChangeMode(m)
    \/ \E n \in {7, 12, 16, 17} : SetPlayerCt(n)
    \/ \E m \in Modes \cup {"cancel"} : Percents(m)
    \/ AllMaps
    \/ Shuffle

Spec == Init /\ [][Next]_vars

\* an iteration of the draw loop that picks a map
Pick == Draw /\ Len(random_maps') > Len(random_maps)

\* pick_random_maps runs its loop without pause, and random::<f64>() does not
\* for ever return values for which the walk over the scores picks nothing
FairSpec == Spec /\ WF_vars(Draw) /\ SF_vars(Pick)

\* ---------------------------------------------- the fold of build_scores

\* build_scores called on the rotation's catalog for a mode that has maps and
\* for 0 players, as print_all_maps_for_mode calls it: scores is what
\* get_appropriate_maps returns, no entry of the log seen yet
FoldInit ==
    /\ json = JsonRotation
    /\ file = << >>
    /\ pc = "build_scores"
    /\ groups = load_map_data(json).groups
    /\ maps = load_map_data(json).maps
    /\ all_maps = Ascending(DOMAIN maps)
    /\ log = << >>
    /\ mode \in {maps[id].mode : id \in DOMAIN maps}
    /\ players = 0
    /\ show_all_maps = FALSE
    /\ scores = << >>
    /\ random_maps = << >>
    /\ map = 0
    /\ iter = 0
    /\ fold = get_appropriate_maps(mode, players, Resolve(all_maps))
    /\ hist = << >>
    /\ run = 0

\* s.map_played(l) for every s of scores.  build_scores lets one map see the
\* whole log before the next; the maps do not touch each other's state, so
\* the fold is followed entry by entry here.
RECURSIVE EachPlayed(_, _)
EachPlayed(states, l) ==
    IF states = <<>> THEN <<>>
    ELSE <<map_played(Head(states), l)>> \o EachPlayed(Tail(states), l)

\* the next entry of the log is map id
SeeEntry(id) ==
    /\ pc = "build_scores"
    /\ run = 0
    /\ Len(hist) < MaxSeen
    /\ hist' = Append(hist, id)
    /\ fold' = EachPlayed(fold, maps[id])
    /\ UNCHANGED <<run, mainvars>>

\* the next entry of the log is the same map as the entry before it
SeeAgain ==
    /\ pc = "build_scores"
    /\ hist # << >>
    /\ run < MaxRun
    /\ run' = run + 1
    /\ fold' = EachPlayed(fold, maps[hist[Len(hist)]])
    /\ UNCHANGED <<hist, mainvars>>

FoldNext ==
    \/ \E id \in DOMAIN maps : SeeEntry(id)
    \/ SeeAgain

FoldSpec == FoldInit /\ [][FoldNext]_vars

\* ------------------------------------------------------------ claims

\* the eligibility filter of the specification: the ids of the maps of a mode
\* with room for the players
Eligible(m, p) == {id \in DOMAIN maps : maps[id].mode = m /\ maps[id].players >= p}

\* the map ids of a sequence of (weight, map)
Ids(q) == {q[i].map.id : i \in DOMAIN q}

\* no map id occurs twice in a sequence of (weight, map)
DistinctIds(q) == \A i, j \in DOMAIN q : q[i].map.id = q[j].map.id => i = j

\* C1: with at least 3 eligible maps pick_random_maps returns exactly 3
\* entries with pairwise distinct map ids, whatever is drawn; the maps picked
\* so far are distinct all along and the duplicate assertion never fires.
C1_ThreeDistinct ==
    /\ [](pc # "panic_dup")
    /\ [](pc = "draw" => DistinctIds(random_maps) /\ Len(random_maps) < 3)
    /\ [][(pc = "draw" /\ pc' = "prompt")
            => (Len(random_maps') = 3 /\ DistinctIds(random_maps'))]_vars

\* pick_random_maps has returned 3 of 4 eligible maps
C1_Witness ==
    /\ pc = "prompt"
    /\ Cardinality(Eligible(mode, players)) = 4
    /\ Len(random_maps) = 3
    /\ DistinctIds(random_maps)

\* C2: with no eligible map the operation aborts: the draw loop is never
\* entered with nothing to draw from, the call of pick_random_maps panics,
\* and no list main displays is empty, the all-maps view included, which is
\* only asked for a mode and player count that has eligible maps.
C2_EmptyAborts ==
    /\ [](pc = "prompt" => random_maps # << >>)
    /\ [](pc = "draw" => (scores # << >> \/ random_maps # << >>))
    /\ []((pc = "loop" /\ show_all_maps) => Eligible(mode, players) # {})
    /\ [][(pc = "loop" /\ ~show_all_maps /\ Eligible(mode, players) = {})
            => pc' = "panic_empty"]_vars

\* pick_random_maps has panicked on a mode without eligible maps
C2_Witness ==
    /\ pc = "panic_empty"
    /\ ~show_all_maps
    /\ log # << >>
    /\ Eligible(mode, players) = {}

\* C3: with 1 or 2 eligible maps the recommendation fails instead of going
\* on drawing: the draw loop is never left with an empty pool.
C3_FailsLoudly ==
    (pc = "draw" /\ Cardinality(Eligible(mode, players)) \in {1, 2})
        => scores # << >>

\* C4: pick_random_maps leaves its draw loop, by a return or by a failure.
C4_Terminates == (pc = "draw") ~> (pc # "draw")

\* C5: build_scores returns one entry for each map of the mode with room for
\* the players and none for another map, whatever the log and the flags of
\* the maps: at the top of the loop for the current mode (which is any mode),
\* for the current player count and for none, and inside pick_random_maps
\* for what it drew from.
C5_Eligibility ==
    /\ pc = "loop" =>
          \A p \in {0, players} :
              LET bs == build_scores(Resolve(log), mode, p, Resolve(all_maps))
              IN  /\ ~bs.panic
                  /\ Ids(bs.scores) = Eligible(mode, p)
                  /\ Len(bs.scores) = Cardinality(Eligible(mode, p))
    /\ pc = "draw" =>
          /\ Ids(scores) \cup Ids(random_maps) = Eligible(mode, players)
          /\ Len(scores) + Len(random_maps) = Cardinality(Eligible(mode, players))

\* a log of two entries or more, scored for a mode with a gag map and a
\* disabled map among its entries
C5_Witness ==
    /\ pc = "draw"
    /\ Len(log) >= 2
    /\ random_maps = << >>
    /\ \E i, j \in DOMAIN scores : scores[i].map.is_gag /\ scores[j].map.disabled

\* the normalized weight build_scores gives map x for the log h
WeightOf(x, h, p) ==
    LET bs == build_scores(Resolve(h), maps[x].mode, p, Resolve(all_maps)).scores
    IN  bs[CHOOSE i \in DOMAIN bs : bs[i].map.id = x].w

Front(q) == SubSeq(q, 1, Len(q) - 1)
Last(q) == q[Len(q)]

\* the main loop is about to score the mode of the last map of the log
RescoresLast == pc = "loop" /\ log # << >> /\ mode = maps[Last(log)].mode

Rival(x, h, p) ==
    \E y \in Eligible(maps[x].mode, p) \ {x} :
        \/ maps[y].group # maps[x].group
        \/ \E i \in DOMAIN h : h[i] = y
        \/ h = << >>
        \/ Last(h) # x

C7_ScoreBounds ==
    /\ pc # "panic_nan"
    /\ pc = "loop" =>
          LET cands == get_appropriate_maps(mode, 0, Resolve(all_maps))
          IN  \A c \in DOMAIN cands : \A k \in 0..Len(log) :
                  LET st == SeeLog(cands[c], Resolve(SubSeq(log, 1, k)))
                      f  == final_score(st)
                  IN  /\ st.penalty + st.cross_type_sibling_penalty > 0
                      /\ ~f.nan
                      /\ f.score >= ClampLo
                      /\ f.score <= ClampHi
                      /\ Exp2Fix(f.score) > 0

\* a candidate that the log has given both kinds of penalty
C7_Witness ==
    /\ pc = "loop"
    /\ LET cands == get_appropriate_maps(mode, 0, Resolve(all_maps))
       IN  \E c \in DOMAIN cands :
               LET st == SeeLog(cands[c], Resolve(log))
               IN  /\ st.penalty > ROUND_PENALTY * FixOne
                   /\ st.cross_type_sibling_penalty > FixOne
                   /\ st.age = 1

\* C8: the chosen map is appended to play_log.txt before it is pushed onto
\* the log: the log is never longer than the file, it is not extended when
\* append_log fails, and after the append it is extended by the chosen map,
\* whose line ends the file.
C8_LogOrder ==
    /\ [](Len(log) <= Len(file))
    /\ [](pc = "push" => (Len(file) = Len(log) + 1 /\ Last(file) = LogLine(maps[map])))
    /\ [][(pc = "prompt" /\ pc' = "exit_err") => log' = log]_vars
    /\ [][pc = "push" => (pc' = "loop" /\ log' = Append(log, map))]_vars

\* append_log has written the line of the chosen map, which is not pushed yet
C8_Witness ==
    /\ pc = "push"
    /\ Len(file) = Len(log) + 1
    /\ log # << >>

\* the cycle of the specification
Successor(m) ==
    CASE m = "TD" -> "DM" [] m = "DM" -> "Chaser" [] m = "Chaser" -> "BR"
      [] m = "BR" -> "Captain" [] m = "Captain" -> "Siege" [] m = "Siege" -> "TD"

RECURSIVE Orbit(_, _)
Orbit(m, k) == IF k = 0 THEN {} ELSE {m} \cup Orbit(next(m), k - 1)

\* C9: at startup and after every committed selection the mode is the
\* successor of the mode of the last log entry, TD for an empty log; next is
\* the cycle TD, DM, Chaser, BR, Captain, Siege, a single cycle of all 6.
C9_ModeRotation ==
    /\ [][((pc = "start" /\ pc' = "loop") \/ pc = "push")
            => mode' = IF log' = << >> THEN "TD"
                       ELSE Successor(maps'[Last(log')].mode)]_vars
    /\ [](\A m \in Modes : next(m) = Successor(m) /\ Orbit(m, 6) = Modes)

\* the mode after a TD map and then a DM map were selected
C9_Witness ==
    /\ pc = "loop"
    /\ Len(log) > MaxFile
    /\ maps[Last(log)].mode = "DM"
    /\ maps[log[Len(log) - 1]].mode = "TD"
    /\ mode = "Chaser"

\* C10: after a successful load_map_data every map has its group set and is
\* a variant of that group and of no other, and every group has a variant.
C10_GroupInvariant ==
    (pc # "start" /\ maps # << >>) =>
        /\ \A id \in DOMAIN maps :
              /\ maps[id].group \in DOMAIN groups
              /\ \A g \in DOMAIN groups :
                    (\E i \in DOMAIN groups[g].variants : groups[g].variants[i] = id)
                        <=> g = maps[id].group
        /\ \A g \in DOMAIN groups : groups[g].variants # << >>

\* the index in hist of the last occurrence of map id from i down, 0 for none
RECURSIVE LastSeen(_, _)
LastSeen(id, i) ==
    IF i = 0 THEN 0 ELSE IF hist[i] = id THEN i ELSE LastSeen(id, i - 1)

\* the number of entries seen after the last occurrence of map id, -1 when
\* the map does not occur
Since(id) ==
    LET i == LastSeen(id, Len(hist))
    IN  IF i = 0 THEN -1
        ELSE IF i = Len(hist) THEN 0
        ELSE Len(hist) - i + run

\* C11: after the entries seen so far a candidate's age is 200 if its map
\* does not occur among them and min(200, 1 + entries after its last
\* occurrence) otherwise; it is within 1..200, the u16 addition stays below
\* 65536, and it is 1 exactly when the map is the last entry.
C11_Age ==
    pc = "build_scores" =>
        \A c \in DOMAIN fold :
            LET n == Since(fold[c].map.id)
            IN  /\ fold[c].age = IF n = -1 THEN 200 ELSE Min(200, 1 + n)
                /\ fold[c].age \in 1..200
                /\ fold[c].age + 1 < 65536
                /\ fold[c].age = 1
                      <=> (hist # << >> /\ hist[Len(hist)] = fold[c].map.id)

\* a candidate played once and then not for 200 entries or more
C11_Witness ==
    /\ pc = "build_scores"
    /\ \E c \in DOMAIN fold :
          /\ Since(fold[c].map.id) >= 200
          /\ fold[c].age = 200

\* C12: an entry of another group adds to neither accumulator of a
\* candidate; an entry of its group and mode, the candidate itself included,
\* adds exactly 1000 to penalty alone; an entry of its group and another
\* mode adds exactly discount * 1000 to cross_type_sibling_penalty alone;
\* what is added comes on top of the discounted accumulators.
C12_Increments ==
    [][pc = "build_scores" =>
        \A c \in DOMAIN fold :
            LET l    == maps[hist'[Len(hist')]]
                self == fold[c]
                dp   == fold'[c].penalty - MulRoundDiscount(self.penalty)
                dc   == fold'[c].cross_type_sibling_penalty
                          - MulCrossDiscount(self.cross_type_sibling_penalty)
            IN  /\ self.map.group # l.group => (dp = 0 /\ dc = 0)
                /\ (self.map.group = l.group /\ self.map.mode = l.mode)
                      => (dp = 1000 * FixOne /\ dc = 0)
                /\ (self.map.group = l.group /\ self.map.mode # l.mode)
                      => /\ dp = 0
                         /\ dc = (mode_discount(self.map.mode, l.mode)
                                  * 1000 * FixOne) \div 10]_vars

\* a candidate that has seen itself, then a map of its group and another
\* mode, then that map again
C12_Witness ==
    /\ pc = "build_scores"
    /\ run > 0
    /\ Len(hist) = 2
    /\ \E c \in DOMAIN fold :
          /\ hist[1] = fold[c].map.id
          /\ maps[hist[2]].group = fold[c].map.group
          /\ maps[hist[2]].mode # fold[c].map.mode
          /\ fold[c].penalty > FixOne
          /\ fold[c].cross_type_sibling_penalty > FixOne

\* Table A of the specification, in tenths
TableA(a, b) ==
    IF a = b THEN 10
    ELSE IF a \in {"Siege", "Chaser"} \/ b \in {"Siege", "Chaser"} THEN 1
    ELSE CASE {a, b} = {"TD", "DM"}      -> 6
           [] {a, b} = {"TD", "BR"}      -> 5
           [] {a, b} = {"TD", "Captain"} -> 5
           [] {a, b} = {"DM", "BR"}      -> 9
           [] {a, b} = {"DM", "Captain"} -> 8
           [] {a, b} = {"BR", "Captain"} -> 7

\* C13: mode_discount is symmetric, agrees with Table A on all 36 ordered
\* pairs of modes, is 1.0 for a mode and itself, and lies in (0, 1]; what
\* the fold adds for an entry of another mode is that table's value.
C13_TableA ==
    /\ \A a, b \in Modes :
          /\ mode_discount(a, b) = mode_discount(b, a)
          /\ mode_discount(a, b) = TableA(a, b)
          /\ mode_discount(a, b) > 0 /\ mode_discount(a, b) <= 10
    /\ (pc = "build_scores" /\ Len(hist) = 1 /\ run = 0) =>
          \A c \in DOMAIN fold :
              (maps[hist[1]].group = fold[c].map.group
                 /\ maps[hist[1]].mode # fold[c].map.mode)
                => fold[c].cross_type_sibling_penalty
                     = MulCrossDiscount(FixOne)
                       + (TableA(fold[c].map.mode, maps[hist[1]].mode)
                          * 1000 * FixOne) \div 10

\* a DM candidate that has seen the TD map of its group: the pair (DM, TD),
\* which the table lists as (TD, DM)
C13_Witness ==
    /\ pc = "build_scores"
    /\ Len(hist) = 1
    /\ run = 0
    /\ \E c \in DOMAIN fold :
          /\ fold[c].map.mode = "DM"
          /\ maps[hist[1]].mode = "TD"
          /\ maps[hist[1]].group = fold[c].map.group
          /\ fold[c].cross_type_sibling_penalty > FixOne

\* C14: the lines append_log wrote are read back by load_log as the maps they
\* were written for, in order: between two selections the log main holds is
\* what load_log reads from play_log.txt.
C14_RoundTrip ==
    pc \in {"loop", "draw", "prompt"} =>
        LET r == load_log(file, maps)
        IN  ~r.err /\ r.records = log

=============================================================================
